---- MODULE Spec2Model ----
(***************************************************************************)
(* The expense-tracker MCP server of src/main.py: two SQLite tables        *)
(* (expenses, credits), the connection context manager get_conn, and the   *)
(* ten tool handlers, five per table.  Every tool call opens a connection  *)
(* of its own; SQLite (WAL mode) admits one writer at a time and makes a   *)
(* transaction's writes visible to the other connections at its commit.    *)
(*                                                                         *)
(* TEXT values are sequences of character codes, compared the way SQLite's *)
(* BINARY collation compares them; REAL amounts are integers.              *)
(***************************************************************************)
EXTENDS Integers, Sequences, FiniteSets, TLC

\* ------------------------------------------------------------------ bounds
MaxCalls == 3        \* tool calls served in one run
MaxFaults == 1       \* store faults (I/O errors) the environment injects in one run

\* The tool calls in flight at once: one can hold the write lock while the other
\* waits for it.
Callers == {"c1", "c2"}
Nobody == "nobody"

\* ------------------------------------------------------------ sample inputs
\* "", "F", "n" and the dates "1", "10", "2" as character codes.
TxtEmpty == << >>
TxtF == <<70>>
TxtN == <<110>>
Date1 == <<49>>
Date10 == <<49, 48>>
Date2 == <<50>>

Tables == {"expenses", "credits"}
Fields == {"date", "amount", "category", "subcategory", "note"}

\* The (date, amount, category, subcategory, note) tuples that add and remove are
\* called with.  Every sample note is non-empty; one sample category is "".
RecF == [date |-> Date10, amount |-> 5, category |-> TxtF, subcategory |-> TxtEmpty, note |-> TxtN]
RecE == [date |-> Date1, amount |-> 3, category |-> TxtEmpty, subcategory |-> TxtEmpty, note |-> TxtN]

\* The keyword arguments an edit is called with that are not None: a function from
\* the supplied field names to the supplied values (<< >> supplies nothing).
NoPatch == << >>
PatchNote == [note |-> TxtEmpty]
PatchDate == [date |-> Date2, amount |-> 0]

\* (start_date, end_date) of list and summarize: "1" to "10".  The sample rows are
\* dated "1" and "10", the two ends of the range; an edit moves a row to "2", which
\* sorts after "10".
SampleRange == <<Date1, Date10>>

\* summarize's optional category: absent (None), or present with a value.
NoCategory == << >>

\* The calls on the expenses tools, and the fewer calls on their credits twins.
ExpenseReqs ==
    [kind : {"add"}, table : {"expenses"}, rec : {RecF, RecE}]
    \cup [kind : {"remove"}, table : {"expenses"}, rec : {RecF, RecE}]
    \cup [kind : {"edit"}, table : {"expenses"}, id : {1, 2}, patch : {NoPatch, PatchNote, PatchDate}]
    \cup [kind : {"list"}, table : {"expenses"}, range : {SampleRange}]
    \cup [kind : {"summarize"}, table : {"expenses"}, range : {SampleRange},
          opt : {NoCategory, [category |-> TxtEmpty], [category |-> TxtF]}]

CreditReqs ==
    [kind : {"add"}, table : {"credits"}, rec : {RecF}]
    \cup [kind : {"remove"}, table : {"credits"}, rec : {RecF}]
    \cup [kind : {"edit"}, table : {"credits"}, id : {1}, patch : {NoPatch, PatchNote}]
    \cup [kind : {"list"}, table : {"credits"}, range : {SampleRange}]
    \cup [kind : {"summarize"}, table : {"credits"}, range : {SampleRange}, opt : {NoCategory}]

Requests == ExpenseReqs \cup CreditReqs

LifecycleReqs ==
    { r \in Requests :
        /\ r.table = "expenses"
        /\ \/ r.kind = "add" /\ r.rec = RecF
           \/ r.kind = "edit" /\ r.id = 1 /\ r.patch \in {NoPatch, PatchNote}
           \/ r.kind = "list" }

NoReq == [kind |-> "none"]
NoValue == [type |-> "none"]

\* ------------------------------------------------------------- SQLite: values
Min2(a, b) == IF a <= b THEN a ELSE b

\* a < b for TEXT under BINARY collation: the first differing character decides,
\* and a proper prefix sorts first.
TextLess(a, b) ==
    \/ \E i \in 1..Min2(Len(a), Len(b)) :
          /\ a[i] < b[i]
          /\ \A j \in 1..(i - 1) : a[j] = b[j]
    \/ /\ Len(a) < Len(b)
       /\ \A j \in 1..Len(a) : a[j] = b[j]

TextLE(a, b) == a = b \/ TextLess(a, b)

\* x BETWEEN lo AND hi
Between(x, lo, hi) == TextLE(lo, x) /\ TextLE(x, hi)

MaxOf(S) == CHOOSE x \in S : \A y \in S : y <= x

RECURSIVE SumAmounts(_)
SumAmounts(S) ==
    IF S = {} THEN 0
    ELSE LET r == CHOOSE x \in S : TRUE
         IN r.amount + SumAmounts(S \ {r})

\* ORDER BY id ASC
RECURSIVE OrderById(_)
OrderById(S) ==
    IF S = {} THEN << >>
    ELSE LET r == CHOOSE x \in S : \A y \in S : x.id <= y.id
         IN <<r>> \o OrderById(S \ {r})

\* ORDER BY category ASC, over the groups of a GROUP BY category
RECURSIVE OrderByCategory(_)
OrderByCategory(S) ==
    IF S = {} THEN << >>
    ELSE LET g == CHOOSE x \in S : \A y \in S : TextLE(x.category, y.category)
         IN <<g>> \o OrderByCategory(S \ {g})

\* ------------------------------------------------------------- SQLite: store
\* A database image: the tables that exist, each table's rows, and each table's
\* AUTOINCREMENT counter (its sqlite_sequence entry).
FreshStore ==
    [tables |-> {}, rows |-> [t \in Tables |-> {}], seq |-> [t \in Tables |-> 0]]

\* CREATE TABLE IF NOT EXISTS t(...)
CreateTableIfNotExists(d, t) ==
    IF t \in d.tables THEN d
    ELSE [d EXCEPT !.tables = @ \cup {t}, !.rows[t] = {}, !.seq[t] = 0]

init_db(d) == CreateTableIfNotExists(CreateTableIfNotExists(d, "expenses"), "credits")

\* sqlite3.OperationalError: no such table: t
NoSuchTable(d, t) == [err |-> "no such table", db |-> d, lastrowid |-> 0, rowcount |-> 0, rows |-> << >>]

\* id INTEGER PRIMARY KEY without AUTOINCREMENT: one more than the largest id the
\* table holds now.
NextRowidOfLargestRow(d, t) ==
    MaxOf({r.id : r \in d.rows[t]} \cup {0}) + 1

\* id INTEGER PRIMARY KEY AUTOINCREMENT: one more than the largest id the table
\* has ever held.
NextRowid(d, t) ==
    LET ids == {r.id : r \in d.rows[t]} \cup {d.seq[t]}
    IN MaxOf(ids) + 1

\* INSERT INTO t(date, amount, category, subcategory, note) VALUES (?,?,?,?,?)
Insert(d, t, rec) ==
    IF t \notin d.tables THEN NoSuchTable(d, t)
    ELSE LET id == NextRowid(d, t)
             row == [id |-> id, date |-> rec.date, amount |-> rec.amount,
                     category |-> rec.category, subcategory |-> rec.subcategory,
                     note |-> rec.note]
         IN [err |-> "", db |-> [d EXCEPT !.rows[t] = @ \cup {row}, !.seq[t] = id],
             lastrowid |-> id, rowcount |-> 1, rows |-> << >>]

Matches(r, rec) ==
    /\ r.date = rec.date
    /\ r.amount = rec.amount
    /\ r.category = rec.category
    /\ r.subcategory = rec.subcategory
    /\ r.note = rec.note

\* DELETE FROM t WHERE date = ? AND amount = ? AND category = ? AND subcategory = ? AND note = ?
Delete(d, t, rec) ==
    IF t \notin d.tables THEN NoSuchTable(d, t)
    ELSE LET hit == {r \in d.rows[t] : Matches(r, rec)}
         IN [err |-> "", db |-> [d EXCEPT !.rows[t] = @ \ hit],
             lastrowid |-> 0, rowcount |-> Cardinality(hit), rows |-> << >>]

\* `if value:` in place of `if value is not None`: "" and 0 supply nothing.
PatchedWhenTruthy(r, patch) ==
    [f \in DOMAIN r |->
        IF f \in DOMAIN patch /\ patch[f] # (IF f = "amount" THEN 0 ELSE TxtEmpty)
        THEN patch[f] ELSE r[f]]

\* One row under SET f1 = ?, f2 = ?, ... for the fields of the patch.
Patched(r, patch) ==
    [f \in DOMAIN r |-> IF f \in DOMAIN patch THEN patch[f] ELSE r[f]]

\* UPDATE t SET <the patch's fields> WHERE id = ?
Update(d, t, id, patch) ==
    IF t \notin d.tables THEN NoSuchTable(d, t)
    ELSE LET hit == {r \in d.rows[t] : r.id = id}
         IN [err |-> "", db |-> [d EXCEPT !.rows[t] = (@ \ hit) \cup {Patched(r, patch) : r \in hit}],
             lastrowid |-> 0, rowcount |-> Cardinality(hit), rows |-> << >>]

\* SELECT id, date, amount, category, subcategory, note FROM t
\* WHERE date BETWEEN ? AND ? ORDER BY id ASC
SelectRange(d, t, lo, hi) ==
    IF t \notin d.tables THEN NoSuchTable(d, t)
    ELSE [err |-> "", db |-> d, lastrowid |-> 0, rowcount |-> 0,
          rows |-> OrderById({r \in d.rows[t] : Between(r.date, lo, hi)})]

\* Python truthiness of the optional category argument: None and "" are false.
CategoryGiven(opt) == "category" \in DOMAIN opt /\ opt.category # TxtEmpty

\* SELECT category, SUM(amount) AS total_amount FROM t WHERE date BETWEEN ? AND ?
\* [AND category = ?] GROUP BY category ORDER BY category ASC
SelectSummary(d, t, lo, hi, opt) ==
    IF t \notin d.tables THEN NoSuchTable(d, t)
    ELSE LET inRange == {r \in d.rows[t] : Between(r.date, lo, hi)}
             kept == IF CategoryGiven(opt)
                     THEN {r \in inRange : r.category = opt.category}
                     ELSE inRange
             groups == { [category |-> c,
                          total_amount |-> SumAmounts({r \in kept : r.category = c})]
                         : c \in {r.category : r \in kept} }
         IN [err |-> "", db |-> d, lastrowid |-> 0, rowcount |-> 0,
             rows |-> OrderByCategory(groups)]

\* ---------------------------------------------------------------- handlers
\* What a tool returns: a dict, or a list of row dicts.  An f-string message is
\* kept as its template, with the value interpolated into it beside it.
ErrorDict(e) == [type |-> "dict", status |-> "error", error |-> e]

Noun(t) == IF t = "expenses" THEN "expense" ELSE "credit"

\* The body each handler runs inside `async with get_conn() as c`, on database
\* image d: the exception it raises (err), the image it leaves, the value it returns.
add_expense(r, d) ==
    LET s == Insert(d, r.table, r.rec)
    IN [err |-> s.err, db |-> s.db,
        value |-> [type |-> "dict", status |-> "ok", id |-> s.lastrowid]]

remove_expenses(r, d) ==
    LET s == Delete(d, r.table, r.rec)
    IN [err |-> s.err, db |-> s.db,
        value |-> IF s.rowcount > 0
                  THEN [type |-> "dict", status |-> "ok",
                        message |-> "Deleted {rowcount} " \o Noun(r.table) \o "(s)",
                        rowcount |-> s.rowcount]
                  ELSE [type |-> "dict", status |-> "error",
                        message |-> "No matching " \o Noun(r.table) \o "s found"]]

\* The guard left out.
NoFieldsNeverRefused(patch) == FALSE

\* `if not update_fields`: no keyword argument other than None was passed.
NoFieldsProvided(patch) == DOMAIN patch = {}

edit_expenses(r, d) ==
    LET s == Update(d, r.table, r.id, r.patch)
    IN [err |-> s.err, db |-> s.db,
        value |-> IF s.rowcount > 0
                  THEN [type |-> "dict", status |-> "ok",
                        message |-> "{id} updated successfully", id |-> r.id]
                  ELSE [type |-> "dict", status |-> "error",
                        message |-> "{id} not found", id |-> r.id]]

list_expenses(r, d) ==
    LET s == SelectRange(d, r.table, r.range[1], r.range[2])
    IN [err |-> s.err, db |-> s.db, value |-> [type |-> "list", items |-> s.rows]]

summarize(r, d) ==
    LET s == SelectSummary(d, r.table, r.range[1], r.range[2], r.opt)
    IN [err |-> s.err, db |-> s.db, value |-> [type |-> "list", items |-> s.rows]]

HandlerBody(r, d) ==
    CASE r.kind = "add" -> add_expense(r, d)
      [] r.kind = "remove" -> remove_expenses(r, d)
      [] r.kind = "edit" -> edit_expenses(r, d)
      [] r.kind = "list" -> list_expenses(r, d)
      [] r.kind = "summarize" -> summarize(r, d)

\* INSERT, DELETE and UPDATE open a write transaction; SELECT opens none.
IsWrite(r) == r.kind \in {"add", "remove", "edit"}

\* ------------------------------------------------------------------- state
VARIABLES
    db,        \* the committed database image, as every connection reads it
    writer,    \* the caller whose connection holds the write lock, if any
    work,      \* the writer's uncommitted image
    pc,        \* where each caller's handler stands
    req,       \* the tool call each caller is serving
    ret,       \* the value the handler's return statement holds while get_conn exits
    exc,       \* the exception propagating in each caller, "" if none
    trace,     \* what get_conn has done on the caller's connection, in order
    result,    \* what the tool call returned to its caller
    hit,       \* whether a store fault (I/O error, lock timeout) struck the call
    calls,     \* tool calls started so far
    faults,    \* store faults injected so far
    issued     \* per table, the ids that add calls have returned, in the order returned

vars == <<db, writer, work, pc, req, ret, exc, trace, result, hit, calls, faults, issued>>

\* The store file outlives the server: it is fresh, or it holds the two tables
\* from an earlier run of init_db.  The server's start (mcp.run) adds nothing.
Init ==
    /\ db \in {FreshStore, init_db(FreshStore)}
    /\ writer = Nobody
    /\ work = db
    /\ pc = [p \in Callers |-> "idle"]
    /\ req = [p \in Callers |-> NoReq]
    /\ ret = [p \in Callers |-> NoValue]
    /\ exc = [p \in Callers |-> ""]
    /\ trace = [p \in Callers |-> << >>]
    /\ result = [p \in Callers |-> NoValue]
    /\ hit = [p \in Callers |-> FALSE]
    /\ calls = 0
    /\ faults = 0
    /\ issued = [t \in Tables |-> << >>]

CanFault == faults < MaxFaults

\* A tool call arrives.  An edit that names no field returns before get_conn;
\* every other call enters get_conn, where aiosqlite.connect succeeds or raises.
CallWith(p, requests) ==
    /\ pc[p] = "idle"
    /\ calls < MaxCalls
    /\ calls' = calls + 1
    /\ \E r \in requests :
          /\ req' = [req EXCEPT ![p] = r]
          /\ IF r.kind = "edit" /\ NoFieldsProvided(r.patch)
             THEN /\ result' = [result EXCEPT ![p] =
                        [type |-> "dict", status |-> "error",
                         message |-> "No fields provided to update"]]
                  /\ pc' = [pc EXCEPT ![p] = "done"]
                  /\ UNCHANGED <<trace, hit, faults>>
             ELSE \/ /\ pc' = [pc EXCEPT ![p] = "configure"]
                     /\ trace' = [trace EXCEPT ![p] = <<"open">>]
                     /\ UNCHANGED <<result, hit, faults>>
                  \/ /\ CanFault
                     /\ faults' = faults + 1
                     /\ hit' = [hit EXCEPT ![p] = TRUE]
                     /\ result' = [result EXCEPT ![p] = ErrorDict("unable to open database file")]
                     /\ pc' = [pc EXCEPT ![p] = "done"]
                     /\ UNCHANGED trace
    /\ UNCHANGED <<db, writer, work, ret, exc, issued>>

Call(p) == CallWith(p, Requests)

\* The three PRAGMA statements.
Configure(p) ==
    /\ pc[p] = "configure"
    /\ \/ /\ pc' = [pc EXCEPT ![p] = "body"]
          /\ trace' = [trace EXCEPT ![p] = Append(@, "configure")]
          /\ UNCHANGED <<exc, hit, faults>>
       \/ /\ CanFault
          /\ faults' = faults + 1
          /\ hit' = [hit EXCEPT ![p] = TRUE]
          /\ exc' = [exc EXCEPT ![p] = "disk I/O error"]
          /\ pc' = [pc EXCEPT ![p] = "rollback"]
          /\ trace' = [trace EXCEPT ![p] = Append(@, "configure!")]
    /\ UNCHANGED <<db, writer, work, req, ret, result, calls, issued>>

\* The statement of the handler's body, and the return statement after it.  A
\* write statement takes the write lock; while another connection holds it the
\* statement waits, and fails once the 30 s busy timeout has passed.
Body(p) ==
    /\ pc[p] = "body"
    /\ \/ /\ ~IsWrite(req[p]) \/ writer = Nobody
          /\ LET s == HandlerBody(req[p], db)
             IN IF s.err # ""
                THEN /\ exc' = [exc EXCEPT ![p] = s.err]
                     /\ pc' = [pc EXCEPT ![p] = "rollback"]
                     /\ trace' = [trace EXCEPT ![p] = Append(@, "body!")]
                     /\ UNCHANGED <<writer, work, ret>>
                ELSE /\ ret' = [ret EXCEPT ![p] = s.value]
                     /\ pc' = [pc EXCEPT ![p] = "commit"]
                     /\ trace' = [trace EXCEPT ![p] = Append(@, "body")]
                     /\ writer' = IF IsWrite(req[p]) THEN p ELSE writer
                     /\ work' = IF IsWrite(req[p]) THEN s.db ELSE work
                     /\ UNCHANGED exc
          /\ UNCHANGED <<hit, faults>>
       \/ /\ IsWrite(req[p]) /\ writer # Nobody
          /\ exc' = [exc EXCEPT ![p] = "database is locked"]
          /\ hit' = [hit EXCEPT ![p] = TRUE]
          /\ pc' = [pc EXCEPT ![p] = "rollback"]
          /\ trace' = [trace EXCEPT ![p] = Append(@, "body!")]
          /\ UNCHANGED <<writer, work, ret, faults>>
       \/ /\ CanFault
          /\ faults' = faults + 1
          /\ hit' = [hit EXCEPT ![p] = TRUE]
          /\ exc' = [exc EXCEPT ![p] = "disk I/O error"]
          /\ pc' = [pc EXCEPT ![p] = "rollback"]
          /\ trace' = [trace EXCEPT ![p] = Append(@, "body!")]
          /\ UNCHANGED <<writer, work, ret>>
    /\ UNCHANGED <<db, req, result, calls, issued>>

\* await conn.commit(), reached when the body returned.
Commit(p) ==
    /\ pc[p] = "commit"
    /\ \/ /\ db' = IF writer = p THEN work ELSE db
          /\ writer' = IF writer = p THEN Nobody ELSE writer
          /\ UNCHANGED work
          /\ pc' = [pc EXCEPT ![p] = "close"]
          /\ trace' = [trace EXCEPT ![p] = Append(@, "commit")]
          /\ UNCHANGED <<exc, hit, faults>>
       \/ /\ CanFault
          /\ faults' = faults + 1
          /\ hit' = [hit EXCEPT ![p] = TRUE]
          /\ exc' = [exc EXCEPT ![p] = "disk I/O error"]
          /\ pc' = [pc EXCEPT ![p] = "rollback"]
          /\ trace' = [trace EXCEPT ![p] = Append(@, "commit!")]
          /\ UNCHANGED <<db, writer, work>>
    /\ UNCHANGED <<req, ret, result, calls, issued>>

\* get_conn with the close after the try statement instead of in its finally
\* clause: an exception leaves get_conn right after the rollback.
RollbackWithoutFinally(p) ==
    /\ pc[p] = "rollback"
    /\ \/ /\ writer' = IF writer = p THEN Nobody ELSE writer
          /\ work' = IF writer = p THEN db ELSE work
          /\ trace' = [trace EXCEPT ![p] = Append(@, "rollback")]
          /\ UNCHANGED <<exc, hit, faults>>
       \/ /\ CanFault
          /\ faults' = faults + 1
          /\ hit' = [hit EXCEPT ![p] = TRUE]
          /\ exc' = [exc EXCEPT ![p] = "disk I/O error"]
          /\ trace' = [trace EXCEPT ![p] = Append(@, "rollback!")]
          /\ UNCHANGED <<writer, work>>
    /\ result' = [result EXCEPT ![p] = ErrorDict(exc'[p])]
    /\ pc' = [pc EXCEPT ![p] = "done"]
    /\ UNCHANGED <<db, req, ret, calls, issued>>

\* except: await conn.rollback(); raise
Rollback(p) ==
    /\ pc[p] = "rollback"
    /\ \/ /\ writer' = IF writer = p THEN Nobody ELSE writer
          /\ work' = IF writer = p THEN db ELSE work
          /\ trace' = [trace EXCEPT ![p] = Append(@, "rollback")]
          /\ UNCHANGED <<exc, hit, faults>>
       \/ /\ CanFault
          /\ faults' = faults + 1
          /\ hit' = [hit EXCEPT ![p] = TRUE]
          /\ exc' = [exc EXCEPT ![p] = "disk I/O error"]
          /\ trace' = [trace EXCEPT ![p] = Append(@, "rollback!")]
          /\ UNCHANGED <<writer, work>>
    /\ pc' = [pc EXCEPT ![p] = "close"]
    /\ UNCHANGED <<db, req, ret, result, calls, issued>>

\* The body's return value kept although get_conn raised on its way out.
HandlerResultKeepsReturn(e, v) == IF v.type = "none" THEN ErrorDict(e) ELSE v

\* The value the handler hands back once get_conn has exited: the body's return
\* value, or the dict of `except Exception as e`.
HandlerResult(e, v) == IF e = "" THEN v ELSE ErrorDict(e)

\* finally: await conn.close().  Closing a connection ends its open transaction
\* without committing it.  Then the handler returns.
Close(p) ==
    /\ pc[p] = "close"
    /\ writer' = IF writer = p THEN Nobody ELSE writer
    /\ work' = IF writer = p THEN db ELSE work
    /\ trace' = [trace EXCEPT ![p] = Append(@, "close")]
    /\ result' = [result EXCEPT ![p] = HandlerResult(exc[p], ret[p])]
    /\ issued' = IF req[p].kind = "add" /\ result'[p].status = "ok"
                 THEN [issued EXCEPT ![req[p].table] = Append(@, result'[p].id)]
                 ELSE issued
    /\ pc' = [pc EXCEPT ![p] = "done"]
    /\ UNCHANGED <<db, req, ret, exc, hit, calls, faults>>

\* The caller has its answer; the slot serves the next call.
Return(p) ==
    /\ pc[p] = "done"
    /\ pc' = [pc EXCEPT ![p] = "idle"]
    /\ req' = [req EXCEPT ![p] = NoReq]
    /\ ret' = [ret EXCEPT ![p] = NoValue]
    /\ exc' = [exc EXCEPT ![p] = ""]
    /\ trace' = [trace EXCEPT ![p] = << >>]
    /\ result' = [result EXCEPT ![p] = NoValue]
    /\ hit' = [hit EXCEPT ![p] = FALSE]
    /\ UNCHANGED <<db, writer, work, calls, faults, issued>>

Step(p) == Configure(p) \/ Body(p) \/ Commit(p) \/ Rollback(p) \/ Close(p)

Next == \E p \in Callers : Call(p) \/ Step(p) \/ Return(p)

Spec == Init /\ [][Next]_vars

\* The same server under the calls that differ in what get_conn does for them:
\* a write, a second write that has to wait for the lock, a read, none at all.
\* The event loop runs every handler that can take a step.
LifecycleCall(p) == CallWith(p, LifecycleReqs)

FairNext == \E p \in Callers : LifecycleCall(p) \/ Step(p) \/ Return(p)

FairSpec == Init /\ [][FairNext]_vars /\ \A p \in Callers : WF_vars(Step(p))

\* ================================================================== claims
RangeOf(s) == {s[i] : i \in 1..Len(s)}
IsPrefix(s, t) == Len(s) <= Len(t) /\ \A i \in 1..Len(s) : s[i] = t[i]
Others(t) == Tables \ {t}
InRange(d, t, range) == {r \in d.rows[t] : TextLE(range[1], r.date) /\ TextLE(r.date, range[2])}

\* The caller's statement has just run without a store fault striking it.
BodyRan(p, kind) ==
    /\ pc[p] = "body"
    /\ pc'[p] # "body"
    /\ req[p].kind = kind
    /\ ~hit'[p]

\* The caller's transaction has just been committed.
Committed(p) == pc[p] = "commit" /\ pc'[p] = "close"

\* C1: adds that run concurrently on one ledger, each on a connection of its own,
\* all return status ok with pairwise distinct ids, and the ledger then holds one
\* new row per call.  (The callers' adds are the only calls so far, and no store
\* fault struck them.)
C1_ConcurrentAddsSucceed ==
    \A t \in Tables :
        ( /\ calls = Cardinality(Callers)
          /\ \A p \in Callers :
                pc[p] = "done" /\ req[p].kind = "add" /\ req[p].table = t /\ ~hit[p] )
        => /\ \A p \in Callers : result[p].status = "ok"
           /\ \A p, q \in Callers : p # q => result[p].id # result[q].id
           /\ Cardinality(db.rows[t]) = Cardinality(Callers)
           /\ \A p \in Callers :
                 \E r \in db.rows[t] : r.id = result[p].id /\ Matches(r, req[p].rec)

\* What holds of concurrent adds on a store that has its tables.
C1_OnInitialisedStore == Tables \subseteq db.tables => C1_ConcurrentAddsSucceed

\* C2: the server's start creates both tables on a fresh store, so both exist
\* whenever a tool call is being served and an add that no store fault strikes
\* returns status ok; creating the tables again leaves every row as it is.
C2_TablesCreatedAtStartup ==
    /\ \A p \in Callers : pc[p] # "idle" => Tables \subseteq db.tables
    /\ \A p \in Callers :
          pc[p] = "done" /\ req[p].kind = "add" /\ ~hit[p] => result[p].status = "ok"
    /\ Tables \subseteq db.tables => init_db(db) = db

UniqueIds(d) ==
    \A t \in Tables : \A r1, r2 \in d.rows[t] : r1.id = r2.id => r1 = r2

IdsOf(d, t) == {r.id : r \in d.rows[t]}

\* C3: within a ledger no two rows share an id, no add returns an id that an
\* earlier add of that ledger returned (whether or not its row still exists),
\* and an edit leaves the ledger's ids as they are.
C3_IdsUniqueNeverReused ==
    /\ UniqueIds(db)
    /\ UniqueIds(work)
    /\ \A t \in Tables :
          \A i, j \in 1..Len(issued[t]) : i # j => issued[t][i] # issued[t][j]
    /\ \A p \in Callers :
          writer = p /\ req[p].kind = "edit"
          => \A t \in Tables : IdsOf(work, t) = IdsOf(db, t)

\* Two ids were issued and the row of the first has been deleted since.
C3_Witness ==
    /\ Len(issued["expenses"]) = 2
    /\ IdsOf(db, "expenses") = {2}

EditEffect(p) ==
    LET t == req[p].table
        patch == req[p].patch
    IN /\ \A u \in Others(t) : db'.rows[u] = db.rows[u]
       /\ \E old \in db.rows[t] :
             /\ old.id = req[p].id
             /\ \E new \in db'.rows[t] :
                   /\ new.id = old.id
                   /\ \A f \in Fields :
                         new[f] = IF f \in DOMAIN patch THEN patch[f] ELSE old[f]
                   /\ db'.rows[t] \ {new} = db.rows[t] \ {old}

\* C4: a successful edit sets exactly the supplied fields of the row with the
\* given id to the supplied values (an empty value is a supplied value), keeps the
\* row's other fields, and changes no other row of either ledger.
C4_EditSetsSuppliedFieldsOnly ==
    [][ \A p \in Callers :
          Committed(p) /\ req[p].kind = "edit" /\ ret[p].status = "ok" => EditEffect(p) ]_vars

\* An edit that supplied the empty note has succeeded on a row whose note was not
\* empty, beside another row of the ledger.
C4_Witness ==
    \E p \in Callers :
        /\ pc[p] = "done"
        /\ req[p].kind = "edit"
        /\ req[p].patch = PatchNote
        /\ result[p].status = "ok"
        /\ \E r \in db.rows[req[p].table] :
              r.id = req[p].id /\ r.note = TxtEmpty /\ r.category = TxtF
        /\ Cardinality(db.rows[req[p].table]) = 2

NoFieldsEdit(r) == r.kind = "edit" /\ DOMAIN r.patch = {}

C5_Refused ==
    \A p \in Callers :
        pc[p] # "idle" /\ NoFieldsEdit(req[p])
        => /\ pc[p] = "done"
           /\ result[p] = [type |-> "dict", status |-> "error",
                           message |-> "No fields provided to update"]
           /\ trace[p] = << >>
           /\ writer # p

C5_NoStoreAccess ==
    \A p \in Callers :
        pc[p] = "idle" /\ pc'[p] # "idle" /\ NoFieldsEdit(req'[p])
        => db' = db /\ work' = work /\ writer' = writer

\* C5: an edit that names no field returns the error "No fields provided to
\* update" for every id, opens no connection, and changes no row.
C5_EmptyEditRefused == []C5_Refused /\ [][C5_NoStoreAccess]_vars

\* An edit that names no field has returned, for an id that exists.
C5_Witness ==
    \E p \in Callers :
        /\ pc[p] = "done"
        /\ NoFieldsEdit(req[p])
        /\ req[p].id \in IdsOf(db, req[p].table)

RemoveEffect(p) ==
    LET t == req[p].table
        gone == {r \in db.rows[t] : Matches(r, req[p].rec)}
    IN /\ pc'[p] = "commit"
       /\ work'.rows[t] = db.rows[t] \ gone
       /\ \A u \in Others(t) : work'.rows[u] = db.rows[u]
       /\ IF gone = {}
          THEN ret'[p] = [type |-> "dict", status |-> "error",
                          message |-> "No matching " \o Noun(t) \o "s found"]
          ELSE /\ ret'[p].status = "ok"
               /\ ret'[p].rowcount = Cardinality(gone)

C6_Step ==
    \A p \in Callers :
        /\ BodyRan(p, "remove") => RemoveEffect(p)
        /\ Committed(p) /\ req[p].kind = "remove" => db' = work

\* C6: remove deletes exactly the rows of its ledger whose five fields equal the
\* given values and reports how many; when none matches it reports that no
\* matching records were found and the store stays as it is.
C6_RemoveByCriteria == [][C6_Step]_vars

\* What holds of remove on a store that has its tables.
C6_OnInitialisedStore == [][Tables \subseteq db.tables => C6_Step]_vars

SummaryOfCategory(p) ==
    LET t == req[p].table
        c == req[p].opt.category
        mine == {r \in InRange(db, t, req[p].range) : r.category = c}
        items == ret'[p].items
    IN /\ Len(items) <= 1
       /\ (mine = {}) = (Len(items) = 0)
       /\ \A i \in 1..Len(items) :
             items[i] = [category |-> c, total_amount |-> SumAmounts(mine)]

\* C7: when summarize is given a category, whatever value a stored row can hold,
\* its result has at most one row, for that category, whose total is the sum of
\* the amounts of the ledger's rows of that category in the date range.
C7_CategoryFilter ==
    [][ \A p \in Callers :
          BodyRan(p, "summarize") /\ pc'[p] = "commit" /\ "category" \in DOMAIN req[p].opt
          => SummaryOfCategory(p) ]_vars

ListEffect(p) ==
    LET items == ret'[p].items
    IN /\ pc'[p] = "commit"
       /\ ret'[p].type = "list"
       /\ RangeOf(items) = InRange(db, req[p].table, req[p].range)
       /\ \A i, j \in 1..Len(items) : i < j => items[i].id < items[j].id
       /\ db' = db /\ work' = work /\ writer' = writer

C8_Step == \A p \in Callers : BodyRan(p, "list") => ListEffect(p)

\* C8: list returns exactly the ledger's rows whose date lies in the range, the
\* two bounds included, in strictly ascending id order (the empty sequence, not
\* an error, when none does), and changes no row.
C8_ListRange == [][C8_Step]_vars

\* What holds of list on a store that has its tables.
C8_OnInitialisedStore == [][Tables \subseteq db.tables => C8_Step]_vars

C9_Outcome ==
    \A p \in Callers :
        pc[p] = "done" /\ IsWrite(req[p])
        => /\ result[p].type = "dict"
           /\ result[p].status = "ok" => trace[p] # << >> /\ trace[p][Len(trace[p]) - 1] = "commit"
           /\ (hit[p] \/ exc[p] # "")
              => result[p].status = "error" /\ "error" \in DOMAIN result[p]
           /\ writer # p

C9_OnlyCommitWrites ==
    db' # db => \E p \in Callers : Committed(p) /\ db' = work

\* C9: a mutating call returns status ok only if its transaction was committed;
\* when a step of it fails the caller gets a status-error dict, the write lock is
\* free again for the next call, and the ledgers change only by a commit that
\* succeeded.
C9_NoSilentPartialSuccess == []C9_Outcome /\ [][C9_OnlyCommitWrites]_vars

\* An add whose commit failed has returned an error, and its row is not stored.
C9_Witness ==
    \E p \in Callers :
        /\ pc[p] = "done"
        /\ req[p].kind = "add"
        /\ "commit!" \in RangeOf(trace[p])
        /\ result[p].status = "error"
        /\ db.rows[req[p].table] = {}

Lifecycles ==
    { <<"open", "configure", "body", "commit", "close">> }
    \cup { front \o back :
             front \in { <<"open", "configure!">>,
                         <<"open", "configure", "body!">>,
                         <<"open", "configure", "body", "commit!">> },
             back \in { <<"rollback", "close">>, <<"rollback!", "close">> } }

C10_Lifecycle ==
    \A p \in Callers :
        /\ trace[p] = << >> \/ \E l \in Lifecycles : IsPrefix(trace[p], l)
        /\ pc[p] \in {"idle", "done"} => trace[p] = << >> \/ trace[p] \in Lifecycles

C10_Closes ==
    \A p \in Callers : (trace[p] # << >>) ~> (pc[p] = "done" /\ trace[p] \in Lifecycles)

\* C10: a connection goes open, configure, body, then commit when all went well
\* or rollback when configure, body or commit failed, then close; never both a
\* commit and a rollback, never a commit after a failed body, and a call that
\* opened a connection never ends before the close, also when the rollback fails.
C10_ConnectionLifecycle == []C10_Lifecycle /\ C10_Closes

\* A call has ended whose rollback failed and whose connection was closed.
C10_Witness ==
    \E p \in Callers :
        /\ pc[p] = "done"
        /\ "rollback!" \in RangeOf(trace[p])
        /\ trace[p][Len(trace[p])] = "close"

====
